---- MODULE Spec2Model ----
(***************************************************************************)
(* Ergonomic Configuration Assistant (CaseStudy#1/ergo-assistant.py).      *)
(*                                                                         *)
(* The state is the UserProfile object (input fields and derived fields on *)
(* one mutable record), the calls made on it so far, and main()'s position *)
(* in its sequence of prompts.  Python strings that the program inspects   *)
(* character by character (answers typed at a prompt, the discomfort text, *)
(* the enum values they are compared with) are sequences of one-character  *)
(* strings; recommendation messages and risk levels are only ever compared *)
(* whole and are TLA+ strings.  Optional[int] is <<>> (None) or <<n>>.     *)
(***************************************************************************)
EXTENDS Integers, Sequences, FiniteSets, TLC

VARIABLES profile, prev, calls, pc, answers, rejected

vars == <<profile, prev, calls, pc, answers, rejected>>

(***************************************************************************)
(* Bounds of the model.                                                    *)
(***************************************************************************)
\* Number of calls (evaluate / add_recommendation) a caller makes on one profile.
MaxCalls == 2
\* Number of lines the prompt loops of one session refuse before every
\* further line typed is a valid one.
MaxRejected == 1

(***************************************************************************)
(* Python str and int primitives, as the program uses them.                *)
(***************************************************************************)
UpperLetters == <<"A", "B", "C", "D", "E", "F", "G", "H", "I", "J", "K", "L", "M",
                  "N", "O", "P", "Q", "R", "S", "T", "U", "V", "W", "X", "Y", "Z">>
LowerLetters == <<"a", "b", "c", "d", "e", "f", "g", "h", "i", "j", "k", "l", "m",
                  "n", "o", "p", "q", "r", "s", "t", "u", "v", "w", "x", "y", "z">>
Digits == <<"0", "1", "2", "3", "4", "5", "6", "7", "8", "9">>

\* str.lower() on one character
LowerChar(c) ==
    IF \E i \in 1..26 : UpperLetters[i] = c
    THEN LowerLetters[CHOOSE i \in 1..26 : UpperLetters[i] = c]
    ELSE c

\* str.lower()
lower(text) == [i \in 1..Len(text) |-> LowerChar(text[i])]

\* str.strip(): drop leading and trailing whitespace
strip(text) ==
    LET keep == {i \in 1..Len(text) : text[i] # " "}
    IN
    IF keep = {} THEN <<>>
    ELSE LET first == CHOOSE i \in keep : \A j \in keep : i <= j
             last  == CHOOSE i \in keep : \A j \in keep : j <= i
         IN  SubSeq(text, first, last)

\* sub in text (substring containment)
Contains(sub, text) ==
    \E i \in 0..(Len(text) - Len(sub)) : SubSeq(text, i + 1, i + Len(sub)) = sub

\* msg in list
InList(msg, list) == \E i \in 1..Len(list) : list[i] = msg

None == <<>>
Some(n) == <<n>>

IsDigit(c) == \E i \in 1..10 : Digits[i] = c
DigitValue(c) == (CHOOSE i \in 1..10 : Digits[i] = c) - 1

\* the literal without its sign
Unsigned(text) ==
    IF text # <<>> /\ Head(text) \in {"+", "-"} THEN Tail(text) ELSE text

\* int(text) does not raise ValueError: optional sign, then digits, single
\* underscores allowed between digits, whitespace allowed around the literal
IsIntLiteral(text) ==
    LET b == Unsigned(strip(text))
    IN  /\ b # <<>>
        /\ \A i \in 1..Len(b) :
              \/ IsDigit(b[i])
              \/ /\ b[i] = "_"
                 /\ 1 < i /\ i < Len(b)
                 /\ IsDigit(b[i - 1]) /\ IsDigit(b[i + 1])

RECURSIVE DigitsValue(_)
DigitsValue(b) ==
    IF b = <<>> THEN 0
    ELSE LET init == SubSeq(b, 1, Len(b) - 1)
             c == b[Len(b)]
         IN  IF c = "_" THEN DigitsValue(init)
             ELSE 10 * DigitsValue(init) + DigitValue(c)

\* int(text), for a text that IsIntLiteral
int(text) ==
    LET t == strip(text)
    IN  IF t # <<>> /\ Head(t) = "-"
        THEN 0 - DigitsValue(Unsigned(t))
        ELSE DigitsValue(Unsigned(t))

(***************************************************************************)
(* String literals of the program.                                         *)
(***************************************************************************)
small == <<"s", "m", "a", "l", "l">>
medium == <<"m", "e", "d", "i", "u", "m">>
large == <<"l", "a", "r", "g", "e">>
fingertip == <<"f", "i", "n", "g", "e", "r", "t", "i", "p">>
claw == <<"c", "l", "a", "w">>
palm == <<"p", "a", "l", "m">>
wasd == <<"w", "a", "s", "d">>
esdf == <<"e", "s", "d", "f">>
other == <<"o", "t", "h", "e", "r">>
yes == <<"y", "e", "s">>
no == <<"n", "o">>
fps == <<"f", "p", "s">>
moba == <<"m", "o", "b", "a">>
rpg == <<"r", "p", "g">>
mmorpg == <<"m", "m", "o", "r", "p", "g">>

KwWrist == <<"w", "r", "i", "s", "t">>
KwFinger == <<"f", "i", "n", "g", "e", "r">>
KwFingers == <<"f", "i", "n", "g", "e", "r", "s">>
KwForearm == <<"f", "o", "r", "e", "a", "r", "m">>
KwNone == <<"n", "o", "n", "e">>
KwDontKnow == <<"d", "o", "n", "'", "t", " ", "k", "n", "o", "w">>

MsgLongSession == "Long sessions detected: add structured 5-10 minute breaks every 45-60 minutes."
MsgBreaks == "Consider adding regular breaks to your gaming sessions."
MsgWrist1 == "Wrist discomfort: consider a lighter mouse, neutral wrist position (avoid excessive extension), and wrist support. "
MsgWrist2 == "Try slight keyboard angle adjustment to keep wrists straight."
MsgFinger1 == "Finger discomfort: consider a mouse with a more ergonomic shape that supports your hand size better."
MsgFinger2 == "Finger discomfort: consider lighter actuation force for keys and mouse buttons."
MsgForearm == "Forearm discomfort: ensure your chair and desk height allow for a 90-degree angle at the elbow."
MsgSmallFingertip == "Small hand + fingertip grip: consider a smaller, lighter mouse (40-70g) with a shape that allows for easy fingertip control."
MsgMediumFingertip == "Medium hand + fingertip grip: consider a lighter medium-sized mouse (50-80g) with a shape that allows for easy fingertip control."
MsgLargeFingertip == "Large hand + fingertip grip: consider a medium-sized mouse (60-90g) with a shape that allows for easy fingertip control."
MsgSmallClaw == "Small hand + claw grip: consider a smaller mouse (40-70g) with a shape that supports the arch of your hand and allows for easy claw grip."
MsgMediumClaw == "Medium hand + claw grip: consider a medium-sized mouse (50-80g) with a shape that supports the arch of your hand and allows for easy claw grip."
MsgLargeClaw == "Large hand + claw grip: consider a medium to larger mouse (60-100g) with a shape that supports the arch of your hand and allows for easy claw grip."
MsgSmallPalm == "Small hand + palm grip: consider a smaller mouse (40-70g) with a shape that allows your palm to rest comfortably on the rear of the mouse."
MsgMediumPalm == "Medium hand + palm grip: consider a medium-sized mouse (50-80g) with a shape that allows your palm to rest comfortably on the rear of the mouse."
MsgLargePalm == "Large hand + palm grip: consider a medium to larger mouse (60-100g) with a shape that allows your palm to rest comfortably on the rear of the mouse."
MsgHeavyMouse == "Heavy mouse detected: consider switching to a lighter mouse (50-80g) to reduce strain."
MsgLighterMouse == "Consider switching to a lighter mouse (50-70g) to reduce strain."
MsgGoodWeight == "Your mouse weight is within a good range for ergonomic gaming."
MsgWeightUnknown == "Mouse weight unknown: if you experience discomfort, consider checking your mouse weight."
MsgTryEsdf == "Large hands: consider trying ESDf for more key reach and centralized hand position."
MsgTryWasd == "Small hands: consider trying WASD for more compact key reach and centralized hand position."
MsgSpace == "Space constraints: consider a compact keyboard layout (e.g. 60% or 65%) and a larger mousepad to allow for better mouse positioning and reduce shoulder strain."
MsgFps == "FPS focus: prioritize consistent sensitivity and a comfortable mouse grip to reduce micro-adjustment strain."
MsgMoba == "MOBA focus: consider a mouse with good button placement for quick access to abilities and macros."
MsgRpg == "RPG focus: consider a mouse with good comfort for longer sessions and customizable buttons for inventory management."
MsgMmorpg == "MMORPG focus: consider a mouse with good comfort for longer sessions and customizable buttons for inventory management and macros."
MsgGeneral == "General gaming: focus on overall comfort, proper breaks, and ergonomic posture to reduce strain across various game types."

(***************************************************************************)
(* The data model.                                                         *)
(***************************************************************************)
\* UserProfile(...): the eight constructor arguments plus the dataclass defaults
UserProfile(a) ==
    [hand_size        |-> a.hand_size,
     grip_style       |-> a.grip_style,
     session_duration |-> a.session_duration,
     discomfort_level |-> a.discomfort_level,
     keyboard_layout  |-> a.keyboard_layout,
     mouse_weight     |-> a.mouse_weight,
     space_issue      |-> a.space_issue,
     game_type        |-> a.game_type,
     risk_points      |-> 0,
     risk_level       |-> "none",
     recommendations  |-> <<>>,
     has_wrist_pain   |-> FALSE,
     has_finger_pain  |-> FALSE,
     has_forearm_pain |-> FALSE]

(***************************************************************************)
(* Analysis and rules.                                                     *)
(***************************************************************************)
\* mutant: the "none" test runs first and the keyword tests overwrite it
parse_discomfort_NoneFirst(p) ==
    LET text == lower(p.discomfort_level)
    IN  [p EXCEPT !.has_wrist_pain   = Contains(KwWrist, text),
                  !.has_finger_pain  = Contains(KwFinger, text) \/ Contains(KwFingers, text),
                  !.has_forearm_pain = Contains(KwForearm, text)]

parse_discomfort(p) ==
    LET text == lower(p.discomfort_level)
        q == [p EXCEPT !.has_wrist_pain   = Contains(KwWrist, text),
                       !.has_finger_pain  = Contains(KwFinger, text) \/ Contains(KwFingers, text),
                       !.has_forearm_pain = Contains(KwForearm, text)]
    IN  IF Contains(KwNone, text)
        THEN [q EXCEPT !.has_wrist_pain = FALSE,
                       !.has_finger_pain = FALSE,
                       !.has_forearm_pain = FALSE]
        ELSE q

\* mutant: appends without the membership test
add_recommendation_NoCheck(p, msg) ==
    [p EXCEPT !.recommendations = Append(@, msg)]

\* mutant: inserts at the front instead of appending
add_recommendation_Prepend(p, msg) ==
    IF ~InList(msg, p.recommendations)
    THEN [p EXCEPT !.recommendations = <<msg>> \o @]
    ELSE p

add_recommendation(p, msg) ==
    IF ~InList(msg, p.recommendations)
    THEN [p EXCEPT !.recommendations = Append(@, msg)]
    ELSE p

\* risk_points += n
AddPoints(p, n) == [p EXCEPT !.risk_points = @ + n]

\* mutant: strict comparisons at the session thresholds
SessionRule_Strict(p) ==
    IF p.session_duration > 180
    THEN add_recommendation(AddPoints(p, 2), MsgLongSession)
    ELSE IF p.session_duration > 90
    THEN add_recommendation(AddPoints(p, 1), MsgBreaks)
    ELSE p

\* evaluate, lines 86-92: session length
SessionRule(p) ==
    IF p.session_duration >= 180
    THEN add_recommendation(AddPoints(p, 2), MsgLongSession)
    ELSE IF p.session_duration >= 90
    THEN add_recommendation(AddPoints(p, 1), MsgBreaks)
    ELSE p

\* evaluate, lines 94-105: discomfort
WristRule(p) ==
    IF p.has_wrist_pain
    THEN add_recommendation(add_recommendation(AddPoints(p, 2), MsgWrist1), MsgWrist2)
    ELSE p

FingerRule(p) ==
    IF p.has_finger_pain
    THEN add_recommendation(add_recommendation(AddPoints(p, 1), MsgFinger1), MsgFinger2)
    ELSE p

ForearmRule(p) ==
    IF p.has_forearm_pain
    THEN add_recommendation(AddPoints(p, 1), MsgForearm)
    ELSE p

\* evaluate, lines 107-125: hand size and grip style
HandGripRule(p) ==
    IF p.hand_size = small /\ p.grip_style = fingertip
    THEN add_recommendation(p, MsgSmallFingertip)
    ELSE IF p.hand_size = medium /\ p.grip_style = fingertip
    THEN add_recommendation(p, MsgMediumFingertip)
    ELSE IF p.hand_size = large /\ p.grip_style = fingertip
    THEN add_recommendation(p, MsgLargeFingertip)
    ELSE IF p.hand_size = small /\ p.grip_style = claw
    THEN add_recommendation(p, MsgSmallClaw)
    ELSE IF p.hand_size = medium /\ p.grip_style = claw
    THEN add_recommendation(p, MsgMediumClaw)
    ELSE IF p.hand_size = large /\ p.grip_style = claw
    THEN add_recommendation(p, MsgLargeClaw)
    ELSE IF p.hand_size = small /\ p.grip_style = palm
    THEN add_recommendation(p, MsgSmallPalm)
    ELSE IF p.hand_size = medium /\ p.grip_style = palm
    THEN add_recommendation(p, MsgMediumPalm)
    ELSE IF p.hand_size = large /\ p.grip_style = palm
    THEN add_recommendation(p, MsgLargePalm)
    ELSE p

\* mutant: the heavy-mouse threshold moved from 95 to 100
MouseWeightRule_HeavyAbove100(p) ==
    IF p.mouse_weight # None
    THEN IF p.mouse_weight[1] > 100
         THEN add_recommendation(AddPoints(p, 1), MsgHeavyMouse)
         ELSE IF p.mouse_weight[1] > 70
         THEN add_recommendation(AddPoints(p, 1), MsgLighterMouse)
         ELSE IF p.mouse_weight[1] <= 60
         THEN add_recommendation(p, MsgGoodWeight)
         ELSE p
    ELSE add_recommendation(p, MsgWeightUnknown)

\* mutant: the 61-70 band closed, every weight up to 70 is "good"
MouseWeightRule_NoGap(p) ==
    IF p.mouse_weight # None
    THEN IF p.mouse_weight[1] > 95
         THEN add_recommendation(AddPoints(p, 1), MsgHeavyMouse)
         ELSE IF p.mouse_weight[1] > 70
         THEN add_recommendation(AddPoints(p, 1), MsgLighterMouse)
         ELSE add_recommendation(p, MsgGoodWeight)
    ELSE add_recommendation(p, MsgWeightUnknown)

\* evaluate, lines 127-138: mouse weight
MouseWeightRule(p) ==
    IF p.mouse_weight # None
    THEN IF p.mouse_weight[1] > 95
         THEN add_recommendation(AddPoints(p, 1), MsgHeavyMouse)
         ELSE IF p.mouse_weight[1] > 70
         THEN add_recommendation(AddPoints(p, 1), MsgLighterMouse)
         ELSE IF p.mouse_weight[1] <= 60
         THEN add_recommendation(p, MsgGoodWeight)
         ELSE p
    ELSE add_recommendation(p, MsgWeightUnknown)

\* evaluate, lines 140-144: keyboard layout
KeyboardRule(p) ==
    IF p.keyboard_layout = wasd /\ p.hand_size = large
    THEN add_recommendation(p, MsgTryEsdf)
    ELSE IF p.keyboard_layout = esdf /\ p.hand_size = small
    THEN add_recommendation(p, MsgTryWasd)
    ELSE p

\* evaluate, lines 145-146: space constraints
SpaceRule(p) ==
    IF p.space_issue = yes
    THEN add_recommendation(p, MsgSpace)
    ELSE p

\* mutant: an unrecognised game type falls through to the general advice
GameTypeRule_DefaultGeneral(p) ==
    IF p.game_type = fps THEN add_recommendation(p, MsgFps)
    ELSE IF p.game_type = moba THEN add_recommendation(p, MsgMoba)
    ELSE IF p.game_type = rpg THEN add_recommendation(p, MsgRpg)
    ELSE IF p.game_type = mmorpg THEN add_recommendation(p, MsgMmorpg)
    ELSE add_recommendation(p, MsgGeneral)

\* evaluate, lines 148-158: game type
GameTypeRule(p) ==
    IF p.game_type = fps THEN add_recommendation(p, MsgFps)
    ELSE IF p.game_type = moba THEN add_recommendation(p, MsgMoba)
    ELSE IF p.game_type = rpg THEN add_recommendation(p, MsgRpg)
    ELSE IF p.game_type = mmorpg THEN add_recommendation(p, MsgMmorpg)
    ELSE IF p.game_type = other THEN add_recommendation(p, MsgGeneral)
    ELSE p

\* mutant: exclusive lower bounds
RiskLevelRule_Exclusive(p) ==
    IF p.risk_points > 5 THEN [p EXCEPT !.risk_level = "high"]
    ELSE IF p.risk_points > 3 THEN [p EXCEPT !.risk_level = "moderate"]
    ELSE IF p.risk_points > 1 THEN [p EXCEPT !.risk_level = "mild"]
    ELSE [p EXCEPT !.risk_level = "none"]

\* evaluate, lines 160-168: final risk level assessment
RiskLevelRule(p) ==
    IF p.risk_points >= 5 THEN [p EXCEPT !.risk_level = "high"]
    ELSE IF p.risk_points >= 3 THEN [p EXCEPT !.risk_level = "moderate"]
    ELSE IF p.risk_points >= 1 THEN [p EXCEPT !.risk_level = "mild"]
    ELSE [p EXCEPT !.risk_level = "none"]

evaluate(p) ==
    LET p0 == parse_discomfort(p)
        p1 == SessionRule(p0)
        p2 == ForearmRule(FingerRule(WristRule(p1)))
        p3 == HandGripRule(p2)
        p4 == MouseWeightRule(p3)
        p5 == SpaceRule(KeyboardRule(p4))
        p6 == GameTypeRule(p5)
    IN  RiskLevelRule(p6)

(***************************************************************************)
(* Inputs: the records a caller may construct.                             *)
(***************************************************************************)
TextEmpty == <<>>
TextWristForearm == <<"w", "r", "i", "s", "t", " ", "a", "n", "d", " ", "f", "o", "r", "e", "a", "r", "m", " ", "p", "a", "i", "n">>
TextWristNone == <<"w", "r", "i", "s", "t", " ", "p", "a", "i", "n", ",", " ", "n", "o", "n", "e", " ", "c", "u", "r", "r", "e", "n", "t", "l", "y">>
TextFingersUpper == <<"S", "o", "r", "e", " ", "F", "I", "N", "G", "E", "R", "S">>
TextAll == <<"w", "r", "i", "s", "t", " ", "f", "i", "n", "g", "e", "r", " ", "f", "o", "r", "e", "a", "r", "m">>
TextAllNone == <<"W", "r", "i", "s", "t", ",", " ", "f", "i", "n", "g", "e", "r", ",", " ", "f", "o", "r", "e", "a", "r", "m", ":", " ", "N", "O", "N", "E">>
xl == <<"x", "l">>
LargeCapital == <<"L", "a", "r", "g", "e">>

HandSizes == {small, medium, large}
GripStyles == {fingertip, claw, palm}
KeyboardLayouts == {wasd, esdf, other}
SpaceIssues == {yes, no}
GameTypes == {fps, moba, rpg, mmorpg, other}

\* session durations around the thresholds of the session rule
Durations == {1, 89, 90, 179, 180, 200}
\* discomfort descriptions
Texts == {TextEmpty, TextWristForearm, TextWristNone, TextFingersUpper, TextAll, TextAllNone}
\* mouse weights around the thresholds of the weight rule, and "don't know"
Weights == {None, Some(60), Some(61), Some(70), Some(71), Some(95), Some(96), Some(100)}
\* every weight ask_mouse_weight accepts
AllWeights == {None} \cup {Some(w) : w \in 20..200}

\* records that satisfy the input contract
InputRecords ==
    [hand_size : HandSizes, grip_style : GripStyles, session_duration : Durations,
     discomfort_level : Texts, keyboard_layout : KeyboardLayouts,
     mouse_weight : Weights, space_issue : SpaceIssues, game_type : GameTypes]

\* the message a caller passes to add_recommendation directly: one that evaluate
\* adds itself for one game type and not for the others
CallerMsgs == {MsgFps}

NoProfile == [constructed |-> FALSE]
NoAnswers == <<>>

(***************************************************************************)
(* The module used as a library: a caller constructs a UserProfile and     *)
(* calls evaluate and add_recommendation on it.                            *)
(***************************************************************************)
Init ==
    /\ profile \in {UserProfile(a) : a \in InputRecords}
    /\ prev = profile
    /\ calls = <<>>
    /\ pc = "library"
    /\ answers = NoAnswers
    /\ rejected = 0

EvaluateCall ==
    /\ pc = "library"
    /\ Len(calls) < MaxCalls
    /\ prev' = profile
    /\ profile' = evaluate(profile)
    /\ calls' = Append(calls, "evaluate")
    /\ UNCHANGED <<pc, answers, rejected>>

AddRecommendationCall ==
    /\ pc = "library"
    /\ Len(calls) < MaxCalls
    /\ \E msg \in CallerMsgs :
          /\ prev' = profile
          /\ profile' = add_recommendation(profile, msg)
          /\ calls' = Append(calls, "add_recommendation")
    /\ UNCHANGED <<pc, answers, rejected>>

Next == EvaluateCall \/ AddRecommendationCall

Spec == Init /\ [][Next]_vars

(***************************************************************************)
(* The same library use, over every mouse weight ask_mouse_weight accepts. *)
(***************************************************************************)
WeightRecords ==
    [hand_size : {medium}, grip_style : {palm}, session_duration : Durations,
     discomfort_level : {TextEmpty, TextAll}, keyboard_layout : {other},
     mouse_weight : AllWeights, space_issue : {no}, game_type : {fps, other}]

InitWeight ==
    /\ profile \in {UserProfile(a) : a \in WeightRecords}
    /\ prev = profile
    /\ calls = <<>>
    /\ pc = "library"
    /\ answers = NoAnswers
    /\ rejected = 0

SpecWeight == InitWeight /\ [][Next]_vars

(***************************************************************************)
(* The same library use, by a caller that does not validate the enum       *)
(* fields: a value outside the enum, or one that differs only in case.     *)
(***************************************************************************)
OutOfContractRecords ==
    [hand_size : HandSizes \cup {xl, LargeCapital}, grip_style : GripStyles \cup {xl},
     session_duration : {1, 180}, discomfort_level : {TextEmpty, TextAll},
     keyboard_layout : KeyboardLayouts \cup {xl}, mouse_weight : {None, Some(100)},
     space_issue : SpaceIssues, game_type : GameTypes \cup {xl}]

InitOutOfContract ==
    /\ profile \in {UserProfile(a) : a \in OutOfContractRecords}
    /\ prev = profile
    /\ calls = <<>>
    /\ pc = "library"
    /\ answers = NoAnswers
    /\ rejected = 0

SpecOutOfContract == InitOutOfContract /\ [][Next]_vars

(***************************************************************************)
(* Input helper functions.  Each operator is one pass of the helper's      *)
(* loop on the line read by input(): it returns a value or prompts again.  *)
(***************************************************************************)
Return(v) == [returned |-> TRUE, value |-> v]
PromptAgain == [returned |-> FALSE]

ask_choise(raw, choices) ==
    LET allowed == {lower(c) : c \in choices}
        ans == lower(strip(raw))
    IN  IF ans \in allowed THEN Return(ans) ELSE PromptAgain

\* mutant: the range test dropped, any integer is returned
ask_int_NoRange(raw, min_val, max_val) ==
    IF IsIntLiteral(strip(raw)) THEN Return(int(strip(raw))) ELSE PromptAgain

ask_int(raw, min_val, max_val) ==
    LET text == strip(raw)
    IN  IF IsIntLiteral(text)
        THEN IF min_val <= int(text) /\ int(text) <= max_val
             THEN Return(int(text))
             ELSE PromptAgain
        ELSE PromptAgain

ask_mouse_weight(raw) ==
    LET text == lower(strip(raw))
    IN  IF text = KwDontKnow THEN Return(None)
        ELSE IF IsIntLiteral(text)
        THEN IF 200 >= int(text) /\ int(text) >= 20
             THEN Return(Some(int(text)))
             ELSE PromptAgain
        ELSE PromptAgain

(***************************************************************************)
(* main(): eight prompts in order, then evaluate, then print_results.      *)
(***************************************************************************)
RawLargePadded == <<" ", "L", "a", "r", "g", "e", " ">>
RawWasdUpper == <<"W", "A", "S", "D">>
RawZero == <<"0">>
RawOne == <<"1">>
RawNineteen == <<"1", "9">>
RawTwenty == <<"2", "0">>
RawNinetyPadded == <<" ", "9", "0", " ">>
RawTwoHundred == <<"2", "0", "0">>
RawTwoHundredOne == <<"2", "0", "1">>
RawMinusFive == <<"-", "5">>
RawUnderscore == <<"1", "_", "0">>
RawBadUnderscore == <<"1", "_", "_", "0">>
RawTooLarge == <<"1", "0", "0", "0", "0", "0", "0", "0", "0", "1">>
RawDontKnowUpper == <<"D", "o", "n", "'", "t", " ", "K", "n", "o", "w", " ">>
RawWristNonePadded == <<" ", "w", "r", "i", "s", "t", " ", "p", "a", "i", "n", ",", " ", "n", "o", "n", "e", " ", "c", "u", "r", "r", "e", "n", "t", "l", "y", " ">>

\* lines a user may type at a prompt
RawInputs ==
    {small, medium, large, fingertip, claw, palm, wasd, esdf, other, yes, no,
     fps, moba, rpg, mmorpg, xl, TextEmpty, RawLargePadded, RawWasdUpper,
     RawZero, RawOne, RawNineteen, RawTwenty, RawNinetyPadded, RawTwoHundred,
     RawTwoHundredOne, RawMinusFive, RawUnderscore, RawBadUnderscore,
     RawTooLarge, KwDontKnow, RawDontKnowUpper}
\* lines a user may type at the discomfort prompt, which accepts any line
DiscomfortInputs == {TextEmpty, TextFingersUpper, RawWristNonePadded}

PromptOrder ==
    <<"hand_size", "grip_style", "session_duration", "discomfort_level",
      "keyboard_layout", "mouse_weight", "space_issue", "game_type">>

InitMain ==
    /\ pc = "hand_size"
    /\ answers = <<>>
    /\ rejected = 0
    /\ profile = NoProfile
    /\ prev = NoProfile
    /\ calls = <<>>

\* one line read at a prompt: the helper returns and main moves on, or the
\* helper prints its complaint and reads again
Prompt(field, result, next) ==
    /\ IF result.returned
       THEN /\ answers' = (field :> result.value) @@ answers
            /\ pc' = next
            /\ UNCHANGED rejected
       ELSE /\ rejected < MaxRejected
            /\ rejected' = rejected + 1
            /\ UNCHANGED <<answers, pc>>
    /\ UNCHANGED <<profile, prev, calls>>

AskHandSize ==
    /\ pc = "hand_size"
    /\ \E raw \in RawInputs :
          Prompt("hand_size", ask_choise(raw, {small, medium, large}), "grip_style")

AskGripStyle ==
    /\ pc = "grip_style"
    /\ \E raw \in RawInputs :
          Prompt("grip_style", ask_choise(raw, {fingertip, claw, palm}),
                 "session_duration")

AskSessionDuration ==
    /\ pc = "session_duration"
    /\ \E raw \in RawInputs :
          Prompt("session_duration", ask_int(raw, 1, 1000000000), "discomfort_level")

AskDiscomfort ==
    /\ pc = "discomfort_level"
    /\ \E raw \in DiscomfortInputs :
          Prompt("discomfort_level", Return(strip(raw)), "keyboard_layout")

AskKeyboardLayout ==
    /\ pc = "keyboard_layout"
    /\ \E raw \in RawInputs :
          LET r == ask_choise(raw, {wasd, esdf, other})
          IN  Prompt("keyboard_layout",
                     IF r.returned THEN Return(lower(r.value)) ELSE r,
                     "mouse_weight")

AskMouseWeight ==
    /\ pc = "mouse_weight"
    /\ \E raw \in RawInputs :
          Prompt("mouse_weight", ask_mouse_weight(raw), "space_issue")

AskSpaceIssue ==
    /\ pc = "space_issue"
    /\ \E raw \in RawInputs :
          Prompt("space_issue", ask_choise(raw, {yes, no}), "game_type")

AskGameType ==
    /\ pc = "game_type"
    /\ \E raw \in RawInputs :
          Prompt("game_type", ask_choise(raw, {fps, moba, rpg, mmorpg, other}),
                 "evaluate")

\* profile = UserProfile(...); evaluate(profile)
RunEvaluate ==
    /\ pc = "evaluate"
    /\ prev' = UserProfile(answers)
    /\ profile' = evaluate(UserProfile(answers))
    /\ calls' = Append(calls, "evaluate")
    /\ pc' = "print"
    /\ UNCHANGED <<answers, rejected>>

\* print_results(profile): reads the profile, changes nothing
PrintResults ==
    /\ pc = "print"
    /\ pc' = "done"
    /\ UNCHANGED <<profile, prev, calls, answers, rejected>>

NextMain ==
    \/ AskHandSize
    \/ AskGripStyle
    \/ AskSessionDuration
    \/ AskDiscomfort
    \/ AskKeyboardLayout
    \/ AskMouseWeight
    \/ AskSpaceIssue
    \/ AskGameType
    \/ RunEvaluate
    \/ PrintResults

SpecMain == InitMain /\ [][NextMain]_vars

(***************************************************************************)
(* Vocabulary of the properties.                                           *)
(***************************************************************************)
EvaluateCount == Cardinality({i \in DOMAIN calls : calls[i] = "evaluate"})

\* exactly one evaluate, on a freshly constructed profile; prev is that profile
FreshEvaluated == calls = <<"evaluate">>

\* the last two calls were both evaluate; prev is the profile between them
EvaluatedTwice ==
    /\ Len(calls) >= 2
    /\ calls[Len(calls)] = "evaluate"
    /\ calls[Len(calls) - 1] = "evaluate"

Outcome(p) ==
    <<p.risk_points, p.risk_level, p.has_wrist_pain, p.has_finger_pain,
      p.has_forearm_pain, p.recommendations>>

NoDuplicates(list) ==
    \A i, j \in 1..Len(list) : i # j => list[i] # list[j]

IsPrefix(a, b) == Len(a) <= Len(b) /\ SubSeq(b, 1, Len(a)) = a

RECURSIVE IsSubsequence(_, _)
IsSubsequence(a, b) ==
    IF a = <<>> THEN TRUE
    ELSE IF b = <<>> THEN FALSE
    ELSE IF Head(a) = Head(b) THEN IsSubsequence(Tail(a), Tail(b))
    ELSE IsSubsequence(a, Tail(b))

SessionMsgs == {MsgLongSession, MsgBreaks}
WristMsgs == {MsgWrist1, MsgWrist2}
FingerMsgs == {MsgFinger1, MsgFinger2}
ForearmMsgs == {MsgForearm}
PainMsgs == WristMsgs \cup FingerMsgs \cup ForearmMsgs
HandGripMsgs ==
    {MsgSmallFingertip, MsgMediumFingertip, MsgLargeFingertip, MsgSmallClaw,
     MsgMediumClaw, MsgLargeClaw, MsgSmallPalm, MsgMediumPalm, MsgLargePalm}
WeightMsgs == {MsgHeavyMouse, MsgLighterMouse, MsgGoodWeight, MsgWeightUnknown}
KeyboardMsgs == {MsgTryEsdf, MsgTryWasd}
SpaceMsgs == {MsgSpace}
GameMsgs == {MsgFps, MsgMoba, MsgRpg, MsgMmorpg, MsgGeneral}

\* the rule groups in the order the specification lists them
RuleGroups ==
    <<SessionMsgs, WristMsgs, FingerMsgs, ForearmMsgs, HandGripMsgs, WeightMsgs,
      KeyboardMsgs, SpaceMsgs, GameMsgs>>
GroupOf(msg) == CHOOSE g \in 1..Len(RuleGroups) : msg \in RuleGroups[g]

MsgsIn(list, group) == {list[i] : i \in 1..Len(list)} \cap group

\* the per-rule contributions as the specification states them
SessionPoints(d) == IF d >= 180 THEN 2 ELSE IF d >= 90 THEN 1 ELSE 0
WeightPoints(w) == IF w # None /\ w[1] > 70 THEN 1 ELSE 0
FlagPoints(p) ==
    (IF p.has_wrist_pain THEN 2 ELSE 0) + (IF p.has_finger_pain THEN 1 ELSE 0)
    + (IF p.has_forearm_pain THEN 1 ELSE 0)

(***************************************************************************)
(* C1: calling evaluate twice in a row on the same record yields identical *)
(* results: after the second call risk_points, risk_level, the pain flags  *)
(* and the recommendations equal their values after the first call.        *)
(* The code accumulates risk_points on the record, so this is violated.    *)
(***************************************************************************)
C1_EvaluateIdempotent ==
    EvaluatedTwice => Outcome(profile) = Outcome(prev)

(***************************************************************************)
(* C2: after evaluate on a freshly constructed record, risk_points is a    *)
(* non-negative integer equal to session points + 2 (wrist) + 1 (finger)   *)
(* + 1 (forearm) + mouse-weight points; no other field contributes.        *)
(***************************************************************************)
C2_PointsAreSumOfRules ==
    EvaluateCount = 1 =>
        /\ profile.risk_points >= 0
        /\ profile.risk_points =
              SessionPoints(profile.session_duration) + FlagPoints(profile)
              + WeightPoints(profile.mouse_weight)

C2_Witness ==
    /\ FreshEvaluated
    /\ profile.session_duration >= 180
    /\ profile.has_wrist_pain /\ profile.has_finger_pain /\ profile.has_forearm_pain
    /\ profile.mouse_weight = Some(71)
    /\ profile.risk_points = 7

(***************************************************************************)
(* C3: whenever evaluate has returned, risk_level is determined by the     *)
(* final risk_points with inclusive lower bounds: high iff >= 5, moderate  *)
(* iff 3..4, mild iff 1..2, none iff 0.                                    *)
(***************************************************************************)
C3_LevelFromPoints ==
    EvaluateCount >= 1 =>
        /\ profile.risk_level = "high" <=> profile.risk_points >= 5
        /\ profile.risk_level = "moderate" <=> profile.risk_points \in 3..4
        /\ profile.risk_level = "mild" <=> profile.risk_points \in 1..2
        /\ profile.risk_level = "none" <=> profile.risk_points = 0

C3_Witness ==
    /\ FreshEvaluated
    /\ profile.risk_points = 5
    /\ profile.risk_level = "high"

(***************************************************************************)
(* C4: the recommendations list never contains the same string twice, in   *)
(* every state reachable by add_recommendation and evaluate calls on a     *)
(* profile that started with an empty list.                                *)
(***************************************************************************)
C4_NoDuplicateRecommendations == NoDuplicates(profile.recommendations)

\* evaluate ran on a profile that already held the messages it adds
C4_Witness ==
    /\ EvaluatedTwice
    /\ Len(profile.recommendations) >= 2
    /\ profile.recommendations = prev.recommendations

(***************************************************************************)
(* C5: if the lower-cased discomfort text contains "none", then after      *)
(* evaluate all three pain flags are false, the pain rules add no point    *)
(* and no recommendation; otherwise each flag is true exactly when its     *)
(* keyword is a substring of the lower-cased text.                         *)
(***************************************************************************)
C5_NoneOverridesPainFlags ==
    EvaluateCount >= 1 =>
        LET text == lower(profile.discomfort_level) IN
        IF Contains(KwNone, text)
        THEN /\ ~profile.has_wrist_pain
             /\ ~profile.has_finger_pain
             /\ ~profile.has_forearm_pain
             /\ MsgsIn(profile.recommendations, PainMsgs) = {}
             /\ EvaluateCount = 1 =>
                   profile.risk_points =
                      SessionPoints(profile.session_duration)
                      + WeightPoints(profile.mouse_weight)
        ELSE /\ profile.has_wrist_pain <=> Contains(KwWrist, text)
             /\ profile.has_finger_pain <=> Contains(KwFinger, text)
             /\ profile.has_forearm_pain <=> Contains(KwForearm, text)

C5_Witness ==
    /\ FreshEvaluated
    /\ profile.discomfort_level = TextAllNone
    /\ Contains(KwWrist, lower(profile.discomfort_level))
    /\ ~profile.has_wrist_pain
    /\ profile.session_duration = 180
    /\ profile.risk_points = 2

(***************************************************************************)
(* C7: for hand_size=large, grip_style=claw, session_duration=200,         *)
(* discomfort_level="wrist and forearm pain", keyboard_layout=wasd,        *)
(* mouse_weight=100, space_issue=yes, game_type=fps, one evaluate on a     *)
(* fresh record gives risk_points = 6, risk_level = "high", and the        *)
(* long-session, both wrist, forearm, large+claw, heavy-mouse, compact-    *)
(* keyboard and FPS messages in that order, with no duplicates.            *)
(***************************************************************************)
ScenarioRecord ==
    [hand_size |-> large, grip_style |-> claw, session_duration |-> 200,
     discomfort_level |-> TextWristForearm, keyboard_layout |-> wasd,
     mouse_weight |-> Some(100), space_issue |-> yes, game_type |-> fps]

C7_EndToEndScenario ==
    (FreshEvaluated /\ prev = UserProfile(ScenarioRecord)) =>
        /\ profile.risk_points = 6
        /\ profile.risk_level = "high"
        /\ IsSubsequence(<<MsgLongSession, MsgWrist1, MsgWrist2, MsgForearm,
                           MsgLargeClaw, MsgHeavyMouse, MsgSpace, MsgFps>>,
                         profile.recommendations)
        /\ NoDuplicates(profile.recommendations)

C7_Witness ==
    /\ FreshEvaluated
    /\ prev = UserProfile(ScenarioRecord)
    /\ Len(profile.recommendations) = 9

(***************************************************************************)
(* C10: the recommendations list is append-only: every call leaves the     *)
(* existing entries as an unchanged prefix, add_recommendation of any      *)
(* message appends at most one entry to any list reached, and after one    *)
(* evaluate on a fresh record the messages appear in the group order       *)
(* session, wrist, finger, forearm, hand x grip, mouse weight, keyboard    *)
(* layout, space, game type.                                               *)
(***************************************************************************)
AllMsgs ==
    SessionMsgs \cup PainMsgs \cup HandGripMsgs \cup WeightMsgs \cup KeyboardMsgs
    \cup SpaceMsgs \cup GameMsgs

C10_AppendOnlyInRuleOrder ==
    /\ IsPrefix(prev.recommendations, profile.recommendations)
    /\ \A msg \in AllMsgs :
          LET after == add_recommendation(profile, msg).recommendations
          IN  /\ IsPrefix(profile.recommendations, after)
              /\ Len(after) <= Len(profile.recommendations) + 1
    /\ (calls # <<>> /\ calls[Len(calls)] = "add_recommendation") =>
          Len(profile.recommendations) <= Len(prev.recommendations) + 1
    /\ FreshEvaluated =>
          \A i, j \in 1..Len(profile.recommendations) :
              i < j => GroupOf(profile.recommendations[i])
                          <= GroupOf(profile.recommendations[j])

\* all nine groups fired after a caller had already added one message
C10_Witness ==
    /\ calls = <<"add_recommendation", "evaluate">>
    /\ Len(prev.recommendations) = 1
    /\ Len(profile.recommendations) = 12

(***************************************************************************)
(* C6: the mouse-weight rule, for every weight in 20..200 or absent:       *)
(* above 95 adds 1 point and the heavy-mouse message; 71..95 adds 1 point  *)
(* and the lighter-mouse message; 61..70 adds nothing; up to 60 adds no    *)
(* point and the good-range message; absent adds no point and the          *)
(* weight-unknown message.  Exactly one of the five applies.               *)
(***************************************************************************)
\* what the weight rule added: the points no other rule accounts for, and
\* the weight messages in the list
WeightOutcome(p) ==
    <<p.risk_points - SessionPoints(p.session_duration) - FlagPoints(p),
      MsgsIn(p.recommendations, WeightMsgs)>>

C6_MouseWeightBands ==
    FreshEvaluated =>
        LET w == prev.mouse_weight
            out == WeightOutcome(profile)
        IN  /\ w = None => out = <<0, {MsgWeightUnknown}>>
            /\ (w # None /\ w[1] > 95) => out = <<1, {MsgHeavyMouse}>>
            /\ (w # None /\ w[1] \in 71..95) => out = <<1, {MsgLighterMouse}>>
            /\ (w # None /\ w[1] \in 61..70) => out = <<0, {}>>
            /\ (w # None /\ w[1] <= 60) => out = <<0, {MsgGoodWeight}>>
            /\ out \in {<<0, {MsgWeightUnknown}>>, <<1, {MsgHeavyMouse}>>,
                        <<1, {MsgLighterMouse}>>, <<0, {}>>, <<0, {MsgGoodWeight}>>}

C6_Witness ==
    /\ FreshEvaluated
    /\ prev.mouse_weight = Some(70)
    /\ MsgsIn(profile.recommendations, WeightMsgs) = {}
    /\ profile.risk_points = 6

(***************************************************************************)
(* C8: when hand_size, grip_style, keyboard_layout or game_type holds a    *)
(* value outside its enum, evaluate completes, the lookup rules that read  *)
(* the field add no recommendation, and the points and the recommendations *)
(* of every other rule are those of a record that differs only in that     *)
(* field.                                                                  *)
(***************************************************************************)
Without(list, group) == SelectSeq(list, LAMBDA m : m \notin group)

\* p, evaluated from fresh record r, agrees with the evaluation of record r2
\* on everything but the messages of group
SameOutside(p, r2, group) ==
    LET q == evaluate(r2)
    IN  /\ q.risk_points = p.risk_points
        /\ q.risk_level = p.risk_level
        /\ Without(q.recommendations, group) = Without(p.recommendations, group)

C8_UnmatchedEnumNoEffect ==
    FreshEvaluated =>
        /\ prev.hand_size \notin HandSizes =>
              /\ MsgsIn(profile.recommendations, HandGripMsgs \cup KeyboardMsgs) = {}
              /\ \A v \in HandSizes :
                    SameOutside(profile, [prev EXCEPT !.hand_size = v],
                                HandGripMsgs \cup KeyboardMsgs)
        /\ prev.grip_style \notin GripStyles =>
              /\ MsgsIn(profile.recommendations, HandGripMsgs) = {}
              /\ \A v \in GripStyles :
                    SameOutside(profile, [prev EXCEPT !.grip_style = v], HandGripMsgs)
        /\ prev.keyboard_layout \notin KeyboardLayouts =>
              /\ MsgsIn(profile.recommendations, KeyboardMsgs) = {}
              /\ \A v \in KeyboardLayouts :
                    SameOutside(profile, [prev EXCEPT !.keyboard_layout = v], KeyboardMsgs)
        /\ prev.game_type \notin GameTypes =>
              /\ MsgsIn(profile.recommendations, GameMsgs) = {}
              /\ \A v \in GameTypes :
                    SameOutside(profile, [prev EXCEPT !.game_type = v], GameMsgs)

\* every lookup field is out of contract and the other rules still fired
C8_Witness ==
    /\ FreshEvaluated
    /\ prev.hand_size = LargeCapital
    /\ prev.grip_style = xl
    /\ prev.keyboard_layout = xl
    /\ prev.game_type = xl
    /\ profile.risk_points = 7
    /\ Len(profile.recommendations) = 8

(***************************************************************************)
(* C9: the prompt loops only ever hand a validated value to the core:      *)
(* ask_mouse_weight returns None or an integer in 20..200, ask_int an      *)
(* integer in [1, 10^9] as called from main, ask_choise a member of the    *)
(* offered choices; an invalid entry is refused and prompted again, so     *)
(* evaluate is not called before all eight fields are valid.               *)
(***************************************************************************)
Answered(field) == field \in DOMAIN answers

\* the prompts answered so far are exactly those before main's position
AnsweredBefore(k) == DOMAIN answers = {PromptOrder[i] : i \in 1..(k - 1)}

C9_PromptsReturnValidValues ==
    /\ Answered("hand_size") => answers.hand_size \in HandSizes
    /\ Answered("grip_style") => answers.grip_style \in GripStyles
    /\ Answered("session_duration") =>
          answers.session_duration >= 1 /\ answers.session_duration <= 1000000000
    /\ Answered("keyboard_layout") => answers.keyboard_layout \in KeyboardLayouts
    /\ Answered("mouse_weight") =>
          \/ answers.mouse_weight = None
          \/ \E w \in 20..200 : answers.mouse_weight = Some(w)
    /\ Answered("space_issue") => answers.space_issue \in SpaceIssues
    /\ Answered("game_type") => answers.game_type \in GameTypes
    /\ \A k \in 1..Len(PromptOrder) :
          pc = PromptOrder[k] => AnsweredBefore(k) /\ calls = <<>>
    /\ calls # <<>> =>
          /\ AnsweredBefore(Len(PromptOrder) + 1)
          /\ calls = <<"evaluate">>
          /\ prev = UserProfile(answers)

\* a session in which a line was refused, and padded, upper-case and
\* underscore entries were accepted after normalisation
C9_Witness ==
    /\ pc = "done"
    /\ rejected = 1
    /\ calls = <<"evaluate">>
    /\ answers.hand_size = large
    /\ answers.session_duration = 10
    /\ answers.mouse_weight = None
    /\ profile.risk_level = "none"

====
